---- MODULE Spec2Model ----
(***************************************************************************)
(* State machine of the Agent Artips chat client: the App component        *)
(* (conversation store + session orchestrator), the useSpeechSynthesis     *)
(* hook (text-to-speech coordinator), the useSpeechRecognition hook        *)
(* (speech-to-text coordinator) and the MessageInput gating of the UI.     *)
(*                                                                         *)
(* One action is one run-to-completion step of the JavaScript event loop:  *)
(* a UI event handler up to its first await, the continuation of an await, *)
(* a timer, or a platform callback.  React re-renders between steps, so a  *)
(* handler invoked from the UI closes over the state at its invocation; a  *)
(* continuation keeps the values its handler captured (stored with the     *)
(* request, the utterance or the timer).                                   *)
(*                                                                         *)
(* Texts are sequences of character codes.  Message.id, Message.timestamp  *)
(* and Conversation.createdAt are written once and never read by any       *)
(* handler; a message is identified here by the request that produced it.  *)
(***************************************************************************)
EXTENDS Integers, Sequences, FiniteSets, TLC

\* ------------------------------------------------------------------ bounds
MaxIds   == 4    \* conversation ids generateId() hands out
MaxReqs  == 2    \* webhook requests issued
MaxStoreReqs == 1 \* of them, under SpecStore
MaxUtter == 2    \* speak() invocations that reach the audio pipeline
MaxTime  == 1    \* clock readings (several reads may fall in one tick)
MaxSess  == 1    \* recording sessions started
MaxBody  == 3    \* characters of a response body drawn from PlainChars
MaxSpoken == 2   \* characters of an answer drawn from SpeechChars

\* --------------------------------------------------------------- constants
TitleMax == 30
TitleCut == 27

Null == <<>>

\* "New Conversation"
NewConversationTitle ==
  <<78, 101, 119, 32, 67, 111, 110, 118, 101, 114, 115, 97, 116, 105, 111, 110>>
\* "..."
Ellipsis == <<46, 46, 46>>

VARIABLES
  \* App: ConversationState
  conversations, currentConversationId, isRecording, isProcessing, error,
  \* App: environment of the store
  storage, phase, pendingLoad, now, nextId,
  \* what the browser offers: AudioContext, SpeechRecognition
  platform,
  \* handleSendMessage invocations awaiting the webhook
  reqs, nReq,
  \* useSpeechSynthesis
  ttsSupported, isSpeaking, ttsError, audioSourceRef, ctxState, utts, nUtt,
  replayTimers,
  \* useSpeechRecognition and the platform recognizer behind it
  sttSupported, hookRecording, recog, nSess,
  \* onResult/onError calls the recognizer made in the latest session
  callbacks,
  \* the step just taken
  last

storeVars == <<conversations, currentConversationId, storage, phase,
               pendingLoad, now, nextId>>
appVars   == <<isRecording, isProcessing, error>>
reqVars   == <<reqs, nReq>>
ttsVars   == <<ttsSupported, isSpeaking, ttsError, audioSourceRef, ctxState,
               utts, nUtt, replayTimers>>
sttVars   == <<sttSupported, hookRecording, recog, nSess, callbacks>>
vars      == <<storeVars, appVars, reqVars, ttsVars, sttVars, platform, last>>

\* ------------------------------------------------------------------- texts
IsWhitespace(c) == c \in {9, 10, 11, 12, 13, 32, 160}

RECURSIVE TrimLeft(_)
TrimLeft(t) ==
  IF t = <<>> THEN <<>>
  ELSE IF IsWhitespace(Head(t)) THEN TrimLeft(Tail(t)) ELSE t

RECURSIVE TrimRight(_)
TrimRight(t) ==
  IF t = <<>> THEN <<>>
  ELSE IF IsWhitespace(t[Len(t)]) THEN TrimRight(SubSeq(t, 1, Len(t) - 1))
  ELSE t

Trim(t) == TrimRight(TrimLeft(t))

\* /\s+/g -> ' '
RECURSIVE CollapseWhitespace(_)
CollapseWhitespace(t) ==
  IF t = <<>> THEN <<>>
  ELSE IF IsWhitespace(Head(t))
       THEN <<32>> \o CollapseWhitespace(TrimLeft(t))
       ELSE <<Head(t)>> \o CollapseWhitespace(Tail(t))

\* the character class of processTextForSpeech, negated:
\* a-zA-Z0-9 À-ÿ \s . , ! ? ' " ( and the range ")-€", then $ £ %
SpeechAllowed(c) ==
  \/ c \in 97..122 \/ c \in 65..90 \/ c \in 48..57
  \/ c \in 192..255
  \/ IsWhitespace(c)
  \/ c \in {46, 44, 33, 63, 39, 34, 40}
  \/ c \in 41..8364
  \/ c \in {36, 163, 37}

RECURSIVE ReplaceDisallowed(_)
ReplaceDisallowed(t) ==
  IF t = <<>> THEN <<>>
  ELSE <<IF SpeechAllowed(Head(t)) THEN Head(t) ELSE 32>>
       \o ReplaceDisallowed(Tail(t))

\* "..." -> ". "
RECURSIVE ReplaceEllipsis(_)
ReplaceEllipsis(t) ==
  IF Len(t) >= 3 /\ SubSeq(t, 1, 3) = Ellipsis
  THEN <<46, 32>> \o ReplaceEllipsis(SubSeq(t, 4, Len(t)))
  ELSE IF t = <<>> THEN <<>>
  ELSE <<Head(t)>> \o ReplaceEllipsis(Tail(t))

\* The texts of this model hold no markup, escape or JSON character, on which
\* cleanHtmlAndFormatText only collapses whitespace and trims.
CleanPlainText(t) == Trim(CollapseWhitespace(t))

\* "." of a regular expression matches anything but a line terminator
IsLineTerminator(c) == c \in {10, 13, 8232, 8233}

\* text.replace(/d(.*?)d/g, '$1') for a literal delimiter d: from left to
\* right, each d followed on the same line by another d is removed together
\* with the nearest such d
RECURSIVE StripDelimited(_, _)
StripDelimited(t, d) ==
  LET n  == Len(d)
      ks == {k \in 0..(Len(t) - 2 * n) :
               /\ \A i \in 1..k : ~IsLineTerminator(t[n + i])
               /\ SubSeq(t, n + k + 1, 2 * n + k) = d}
      k0 == CHOOSE k \in ks : \A j \in ks : k <= j
  IN  IF Len(t) < 2 * n THEN t
      ELSE IF SubSeq(t, 1, n) = d /\ ks # {}
      THEN SubSeq(t, n + 1, n + k0)
             \o StripDelimited(SubSeq(t, 2 * n + k0 + 1, Len(t)), d)
      ELSE <<Head(t)>> \o StripDelimited(Tail(t), d)

\* "Response:"
ResponsePrefix == <<82, 101, 115, 112, 111, 110, 115, 101, 58>>

\* text.startsWith('Response:') -> text.substring(9).trim()
StripResponsePrefix(t) ==
  IF Len(t) >= Len(ResponsePrefix)
     /\ SubSeq(t, 1, Len(ResponsePrefix)) = ResponsePrefix
  THEN Trim(SubSeq(t, Len(ResponsePrefix) + 1, Len(t)))
  ELSE t

\* the emphasis patterns, in the order of the source: ** then * then __ then _
StripEmphasis(t) ==
  StripDelimited(StripDelimited(StripDelimited(StripDelimited(
    t, <<42, 42>>), <<42>>), <<95, 95>>), <<95>>)

\* text.replace(/pat/g, rep) for a literal pattern
RECURSIVE ReplaceAll(_, _, _)
ReplaceAll(t, pat, r) ==
  IF Len(t) < Len(pat) THEN t
  ELSE IF SubSeq(t, 1, Len(pat)) = pat
  THEN r \o ReplaceAll(SubSeq(t, Len(pat) + 1, Len(t)), pat, r)
  ELSE <<Head(t)>> \o ReplaceAll(Tail(t), pat, r)

\* \n -> newline, then \" -> "
Unescape(t) == ReplaceAll(ReplaceAll(t, <<92, 110>>, <<10>>), <<92, 34>>, <<34>>)

\* cleanHtmlAndFormatText on a text that holds neither < nor [ and does not
\* start with { : the JSON probe, the HTML replacements and the link pattern
\* match nothing in it.  What is left is the prefix, the unescapes, the
\* emphasis patterns and the whitespace; /\n{3,}/ finds no newline after
\* /\s+/ has run.
CleanHtmlAndFormatText(t) ==
  Trim(Trim(CollapseWhitespace(StripEmphasis(Unescape(StripResponsePrefix(t))))))

\* text.trim().startsWith('{') || text.trim().startsWith('[')
JsonShaped(t) == Trim(t) # <<>> /\ Head(Trim(t)) \in {123, 91}

\* {"output":"  and  "}
OutputOpen  == <<123, 34, 111, 117, 116, 112, 117, 116, 34, 58, 34>>
OutputClose == <<34, 125>>

\* the characters of a JSON string literal, between its quotes: no control
\* character, no bare quote, a backslash only before n, " or \
RECURSIVE IsJsonStringBody(_)
IsJsonStringBody(t) ==
  IF t = <<>> THEN TRUE
  ELSE IF Head(t) = 92
  THEN Len(t) >= 2 /\ t[2] \in {110, 34, 92}
         /\ IsJsonStringBody(SubSeq(t, 3, Len(t)))
  ELSE Head(t) >= 32 /\ Head(t) # 34 /\ IsJsonStringBody(Tail(t))

\* the string that JSON.parse makes of such a literal
RECURSIVE JsonStringValue(_)
JsonStringValue(t) ==
  IF t = <<>> THEN <<>>
  ELSE IF Head(t) = 92
  THEN <<IF t[2] = 110 THEN 10 ELSE t[2]>>
         \o JsonStringValue(SubSeq(t, 3, Len(t)))
  ELSE <<Head(t)>> \o JsonStringValue(Tail(t))

\* whether t is the JSON text {"output":"..."} and nothing else
IsOutputObject(t) ==
  /\ Len(t) >= Len(OutputOpen) + Len(OutputClose)
  /\ SubSeq(t, 1, Len(OutputOpen)) = OutputOpen
  /\ SubSeq(t, Len(t) - 1, Len(t)) = OutputClose
  /\ IsJsonStringBody(SubSeq(t, Len(OutputOpen) + 1, Len(t) - 2))

\* formatResponseText.  The JSON-shaped bodies of this model are objects with
\* the one field "output", for which JSON.parse succeeds and data.output is
\* cleaned; any other text is cleaned as it is.
FormatResponseText(t) ==
  IF JsonShaped(t) /\ IsOutputObject(t)
  THEN CleanHtmlAndFormatText(
         JsonStringValue(SubSeq(t, Len(OutputOpen) + 1, Len(t) - 2)))
  ELSE CleanHtmlAndFormatText(t)

\* 'Sorry, I received an empty response. Please try again.'
EmptyResponseNotice ==
  <<"Sorry, I received an empty response. Please try again.">>

\* what sendMessageToWebhook resolves to when the response body is body
SendMessageToWebhook(body) ==
  IF Trim(body) = <<>> THEN EmptyResponseNotice ELSE FormatResponseText(body)

ProcessTextForSpeech(t) ==
  Trim(CollapseWhitespace(ReplaceDisallowed(ReplaceEllipsis(
    CleanHtmlAndFormatText(t)))))

\* what the user types or dictates: "a", " " and ""
UserTexts == {<<97>>, <<32>>, <<>>}
\* what sendMessageToWebhook resolves to: "r", "#" (nothing speakable) and ""
ReplyTexts == {<<114>>, <<35>>, <<>>}
PlainReplies == {<<114>>}

\* Answers to be spoken: the texts of one or two characters out of "a", ":",
\* "+", "#", "_", the euro sign, the character after it, and the space
SpeechChars == {97, 58, 43, 35, 95, 8364, 8365, 32}

SpeechTexts == UNION {[1..n -> SpeechChars] : n \in 1..MaxSpoken}
TurnReplies == {<<114>>, <<>>}

\* Response bodies of plain text: every text of up to MaxBody characters out
\* of "a", space, newline, "*" and "_", and three that begin with "Response:"
PlainChars == {97, 32, 10, 42, 95}

PlainBodies ==
  UNION {[1..n -> PlainChars] : n \in 1..MaxBody}
    \cup {ResponsePrefix \o <<97>>,
          ResponsePrefix \o <<32, 42, 97, 42>>,
          ResponsePrefix \o ResponsePrefix \o <<97>>}

\* JSON.stringify of a string of these characters, between its quotes
RECURSIVE JsonStringBody(_)
JsonStringBody(v) ==
  IF v = <<>> THEN <<>>
  ELSE (IF Head(v) = 10 THEN <<92, 110>>
        ELSE IF Head(v) \in {34, 92} THEN <<92, Head(v)>>
        ELSE <<Head(v)>>) \o JsonStringBody(Tail(v))

\* "Hello", a newline, "World"
HelloWorld == <<72, 101, 108, 108, 111, 10, 87, 111, 114, 108, 100>>

\* Response bodies {"output": v} for the texts v of up to MaxBody characters
\* out of "H", space, newline and backslash, and for HelloWorld
OutputChars == {72, 32, 10, 92}

OutputBodies ==
  {OutputOpen \o JsonStringBody(v) \o OutputClose :
     v \in UNION {[1..n -> OutputChars] : n \in 1..MaxBody} \cup {HelloWorld}}

\* ------------------------------------------------------------ conversations
NewConversation(id, t) ==
  [id |-> id, title |-> NewConversationTitle, messages |-> <<>>, updatedAt |-> t]

Ids(convs) == {convs[i].id : i \in 1..Len(convs)}

Find(convs, id) ==
  IF id \in Ids(convs)
  THEN convs[CHOOSE i \in 1..Len(convs) :
                /\ convs[i].id = id
                /\ \A j \in 1..(i - 1) : convs[j].id # id]
  ELSE Null

\* Array.prototype.sort with (a, b) => b.updatedAt - a.updatedAt: stable
RECURSIVE InsertByUpdatedAt(_, _)
InsertByUpdatedAt(c, s) ==
  IF s = <<>> THEN <<c>>
  ELSE IF Head(s).updatedAt >= c.updatedAt
       THEN <<Head(s)>> \o InsertByUpdatedAt(c, Tail(s))
       ELSE <<c>> \o s

RECURSIVE SortByUpdatedAtDesc(_)
SortByUpdatedAtDesc(s) ==
  IF s = <<>> THEN <<>>
  ELSE InsertByUpdatedAt(s[Len(s)], SortByUpdatedAtDesc(SubSeq(s, 1, Len(s) - 1)))

RECURSIVE Filter(_, _)
Filter(s, id) ==
  IF s = <<>> THEN <<>>
  ELSE IF Head(s).id = id THEN Filter(Tail(s), id)
       ELSE <<Head(s)>> \o Filter(Tail(s), id)

\* the clock: new Date() never runs backwards; two reads may coincide
Clock == {t \in {now, now + 1} : t <= MaxTime}

\* ------------------------------------------------------------- persistence
Snapshot(convs, cur) == [kind |-> "json", conversations |-> convs, currentId |-> cur]

\* a save that writes the conversations and leaves a stored current id alone
SaveConversationsOnly(convs, cur, old) ==
  IF Len(convs) > 0 /\ cur # 0
  THEN Snapshot(convs, IF old.kind = "json" THEN old.currentId ELSE cur)
  ELSE old

\* the save effect
Save(convs, cur, old) ==
  IF Len(convs) > 0 /\ cur # 0 THEN Snapshot(convs, cur) ELSE old

\* a conversation of an earlier session: "a" and the answer "r"
SavedConversation(id, t) ==
  [id |-> id, title |-> <<97>>,
   messages |-> << [text |-> <<97>>, isUser |-> TRUE, req |-> 0],
                   [text |-> <<114>>, isUser |-> FALSE, req |-> 0] >>,
   updatedAt |-> t]

\* what localStorage may hold when the page loads
InitialStorages ==
  { [kind |-> "absent"],
    [kind |-> "corrupt"],
    Snapshot(<<SavedConversation(11, -1)>>, 11),
    Snapshot(<<SavedConversation(11, -2), SavedConversation(12, -1)>>, 13) }

\* a load that takes the first stored conversation when the stored id is stale
LoadSelectsFirst(st, seedId, t) ==
  IF st.kind = "json" /\ Len(st.conversations) > 0
  THEN IF st.currentId # 0 /\ st.currentId \in Ids(st.conversations)
       THEN <<st.conversations, st.currentId>>
       ELSE <<st.conversations, st.conversations[1].id>>
  ELSE <<(<<NewConversation(seedId, t)>>), seedId>>

\* the load effect: <<conversations, currentConversationId>>
Load(st, seedId, t) ==
  IF st.kind = "json" /\ Len(st.conversations) > 0
  THEN IF st.currentId # 0 /\ st.currentId \in Ids(st.conversations)
       THEN <<st.conversations, st.currentId>>
       ELSE <<SortByUpdatedAtDesc(st.conversations),
              SortByUpdatedAtDesc(st.conversations)[1].id>>
  ELSE <<(<<NewConversation(seedId, t)>>), seedId>>

\* ------------------------------------------------------------------- store
GetCurrentConversation(convs, cur, freshId, t) ==
  IF cur \in Ids(convs) THEN Find(convs, cur)
  ELSE IF Len(convs) > 0 THEN convs[1]
  ELSE NewConversation(freshId, t)

\* an upsert that always prepends
UpsertConversationPrepends(convs, c) == SortByUpdatedAtDesc(<<c>> \o convs)

\* an upsert that does not sort
UpsertConversationUnsorted(convs, c) ==
  IF c.id \in Ids(convs)
  THEN [i \in 1..Len(convs) |-> IF convs[i].id = c.id THEN c ELSE convs[i]]
  ELSE <<c>> \o convs

UpsertConversation(convs, c) ==
  SortByUpdatedAtDesc(
    IF c.id \in Ids(convs)
    THEN [i \in 1..Len(convs) |->
            IF i = (CHOOSE k \in 1..Len(convs) :
                      /\ convs[k].id = c.id
                      /\ \A j \in 1..(k - 1) : convs[j].id # c.id)
            THEN c ELSE convs[i]]
    ELSE <<c>> \o convs)

\* a title cut at the limit before the dots are added
AutoTitleCutsAtMax(text) ==
  IF Len(text) > TitleMax THEN SubSeq(text, 1, TitleMax) \o Ellipsis ELSE text

AutoTitle(text) ==
  IF Len(text) > TitleMax THEN SubSeq(text, 1, TitleCut) \o Ellipsis ELSE text

AppendUserMessage(c, text, r, t) ==
  [c EXCEPT
     !.messages = Append(c.messages, [text |-> text, isUser |-> TRUE, req |-> r]),
     !.updatedAt = t,
     !.title = IF Len(c.messages) = 0
                  /\ (c.title = <<>> \/ c.title = NewConversationTitle)
               THEN AutoTitle(text) ELSE c.title]

\* a reply that only touches the timestamp
AppendAgentMessageLost(c, text, r, t) == [c EXCEPT !.updatedAt = t]

AppendAgentMessage(c, text, r, t) ==
  [c EXCEPT
     !.messages = Append(c.messages, [text |-> text, isUser |-> FALSE, req |-> r]),
     !.updatedAt = t]

\* ------------------------------------------------------- useSpeechSynthesis
\* One record per speak() that reached the audio pipeline.  cap is the
\* isSpeaking its closure captured; src is its AudioBufferSourceNode; atCall
\* and unstopped record, for the sources playing when speak() was called,
\* which of them had received no stop() when this source was started;
\* cancelled records a cancel() called while isSpeaking and this utterance was
\* under way; spoken is the processedText sent to the synthesis service.
UttInit ==
  [pc |-> "unused", cap |-> FALSE, text |-> <<>>, src |-> "none",
   stopCalled |-> FALSE, atCall |-> {}, unstopped |-> {}, cancelled |-> FALSE,
   spoken |-> <<>>]

Tts ==
  [isSpeaking |-> isSpeaking, ttsError |-> ttsError, ref |-> audioSourceRef,
   ctx |-> ctxState, utts |-> utts, nUtt |-> nUtt]

SetTts(T) ==
  /\ isSpeaking' = T.isSpeaking
  /\ ttsError' = T.ttsError
  /\ audioSourceRef' = T.ref
  /\ ctxState' = T.ctx
  /\ utts' = T.utts
  /\ nUtt' = T.nUtt

Playing(u) == {j \in DOMAIN u : u[j].src = "playing"}

\* AudioBufferSourceNode.stop(): the node falls silent, onended is queued
StopSource(u, j) ==
  [u EXCEPT ![j].src = IF @ = "playing" THEN "stopped" ELSE @,
            ![j].stopCalled = TRUE]

\* speak(), from "Cancel any ongoing speech" to the await of the fetch
SpeakBody(T, k) ==
  LET T1 == IF T.utts[k].cap /\ T.ref # 0
            THEN [T EXCEPT !.utts = StopSource(@, T.ref), !.ref = 0]
            ELSE T
      speakable == ProcessTextForSpeech(T.utts[k].text) # <<>>
  IN  [T1 EXCEPT !.isSpeaking = speakable,
                 !.ttsError = Null,
                 !.utts[k].pc = IF speakable THEN "fetch" ELSE "done",
                 !.utts[k].spoken = ProcessTextForSpeech(T.utts[k].text)]

\* speak(text) by a closure that captured isSpeaking = cap
Speak(T, text, cap) ==
  IF ~ttsSupported
  THEN [T EXCEPT !.ttsError = <<"Speech synthesis is not available.">>]
  ELSE IF Trim(text) = <<>> THEN T
  ELSE LET k  == T.nUtt + 1
           T0 == [T EXCEPT !.nUtt = k,
                           !.utts[k] = [UttInit EXCEPT !.pc = "resume",
                                                       !.cap = cap,
                                                       !.text = text,
                                                       !.atCall = Playing(T.utts)]]
       IN  IF T.ctx = "suspended" THEN T0 ELSE SpeakBody(T0, k)

\* the utterances a cancel() finds under way: awaiting resume or fetch, or playing
MarkCancelled(u) ==
  [j \in DOMAIN u |->
     IF u[j].pc \in {"resume", "fetch"} \/ u[j].src = "playing"
     THEN [u[j] EXCEPT !.cancelled = TRUE] ELSE u[j]]

\* cancel() by a closure that captured isSpeaking = cap
Cancel(T, cap) ==
  LET M == IF T.isSpeaking THEN [T EXCEPT !.utts = MarkCancelled(@)] ELSE T
  IN  IF ~ttsSupported \/ T.ref = 0 \/ ~cap THEN M
      ELSE [M EXCEPT !.utts = StopSource(@, T.ref)]

\* "if (isSpeaking) stopSpeaking()" of the App handlers
StopIfSpeaking(T) == IF isSpeaking THEN Cancel(T, isSpeaking) ELSE T

\* a handler whose setState leaves the error it found
ErrorKeptAfterTts(handlerError, newTtsError) ==
  IF newTtsError # ttsError /\ newTtsError # Null
  THEN <<"Speech synthesis error: ">> \o newTtsError
  ELSE IF handlerError = Null THEN error ELSE handlerError

\* the App effect on ttsError, which runs after the handler's own setState
ErrorAfterTts(handlerError, newTtsError) ==
  IF newTtsError # ttsError /\ newTtsError # Null
  THEN <<"Speech synthesis error: ">> \o newTtsError
  ELSE handlerError

Inflight == {r \in DOMAIN reqs : reqs[r].st = "inflight"}

\* speak() calls already owed: one per request in flight, one per timer
SpeakRoom == nUtt + Cardinality(Inflight) + Len(replayTimers) < MaxUtter

\* ------------------------------------------------------------ the webhook
\* what sendMessageToWebhook rejects with: the Error thrown for a response
\* that is not ok, or the TypeError of a failed fetch
HttpStatuses == {404, 503}
FetchFailures == {"Failed to fetch"}
HttpError(s) == [type |-> "http", status |-> s, message |-> "HTTP error! Status"]
WebhookErrors ==
  {[type |-> "http", status |-> s, message |-> "HTTP error! Status"] : s \in HttpStatuses}
  \cup {[type |-> "fetch", status |-> 0, message |-> m] : m \in FetchFailures}

RECURSIVE LeadingDigit(_)
LeadingDigit(n) == IF n < 10 THEN n ELSE LeadingDigit(n \div 10)

\* error.message.includes('HTTP error! Status: <d>') on `HTTP error! Status: ${status}`
IncludesHttpStatus(e, d) == e.type = "http" /\ LeadingDigit(e.status) = d

IncludesFetchFailure(e) ==
  e.type = "fetch" /\ e.message \in {"Failed to fetch", "NetworkError when attempting to fetch resource."}

\* a classification that tells no 4xx from a 5xx
ErrorMessageForAnyStatus(e) ==
  IF IncludesFetchFailure(e)
  THEN <<"Network error: Unable to connect. Please check your internet connection.">>
  ELSE IF e.type = "http"
  THEN <<"Server error (client-side): The request was rejected. Please try again later.">>
  ELSE <<"Error: ", e.message>>

\* the catch block of handleSendMessage
ErrorMessageFor(e) ==
  IF IncludesFetchFailure(e)
  THEN <<"Network error: Unable to connect. Please check your internet connection.">>
  ELSE IF IncludesHttpStatus(e, 4)
  THEN <<"Server error (client-side): The request was rejected. Please try again later.">>
  ELSE IF IncludesHttpStatus(e, 5)
  THEN <<"Server error (server-side): The server is currently unavailable. Please try again later.">>
  ELSE <<"Error: ", e.message>>

\* handleSpeechError(msg), called through onErrorRef
SpeechErrorText(msg) == <<"Speech recognition error: ", msg>>

\* One record per handleSendMessage awaiting the webhook: conv is its local
\* updatedConversation, cap the isSpeaking it captured.  A settled request
\* keeps the id of its conversation and how it ended.
ReqInit ==
  [st |-> "unused", conv |-> Null, convId |-> 0, cap |-> FALSE, text |-> <<>>,
   err |-> Null, body |-> <<>>]

\* every step records itself, and whether it called speak(); the browser's
\* capabilities never change
Step(op, id, spoke) ==
  /\ last' = [op |-> op, id |-> id, spoke |-> spoke]
  /\ UNCHANGED platform

Did(op, id) == Step(op, id, FALSE)

\* -------------------------------------------------------------------- Init
GhostId == 1   \* the generateId() of the initial currentConversationId
SeedId  == 2   \* the generateId() of the initial conversation

\* a browser without AudioContext has no context state to choose
Platforms ==
  {p \in [audio : BOOLEAN, recognition : BOOLEAN,
          ctx : {"none", "suspended", "running"}] :
     p.audio <=> p.ctx # "none"}

InitOn(storages) ==
  /\ platform \in Platforms
  /\ conversations = <<NewConversation(SeedId, 0)>>
  /\ currentConversationId = GhostId
  /\ isRecording = FALSE
  /\ isProcessing = FALSE
  /\ error = Null
  /\ storage \in storages
  /\ phase = "constructed"
  /\ pendingLoad = Null
  /\ now = 0
  /\ nextId = 3
  /\ reqs = [r \in 1..MaxReqs |-> ReqInit]
  /\ nReq = 0
  /\ ttsSupported = FALSE
  /\ isSpeaking = FALSE
  /\ ttsError = Null
  /\ audioSourceRef = 0
  /\ ctxState = "none"
  /\ utts = [k \in 1..MaxUtter |-> UttInit]
  /\ nUtt = 0
  /\ replayTimers = <<>>
  /\ sttSupported = FALSE
  /\ hookRecording = FALSE
  /\ recog = "idle"
  /\ nSess = 0
  /\ callbacks = 0
  /\ last = [op |-> "init", id |-> 0, spoke |-> FALSE]

Init == InitOn(InitialStorages)

\* ------------------------------------------------------------------- mount
\* The effects of the first commit, in hook order: the load effect reads
\* localStorage and queues its setState, the save effect writes the state of
\* the first render, useSpeechSynthesis creates its AudioContext,
\* useSpeechRecognition initializes.
Mount ==
  /\ phase = "constructed"
  /\ pendingLoad' = Load(storage, nextId, now)
  /\ nextId' = nextId + 1
  /\ storage' = Save(conversations, currentConversationId, storage)
  /\ ttsSupported' = platform.audio
  /\ ctxState' = platform.ctx
  /\ ttsError' = IF platform.audio THEN Null ELSE <<"AudioContext is not supported.">>
  /\ sttSupported' = platform.recognition
  /\ error' = ErrorAfterTts(
                IF platform.recognition THEN error
                ELSE SpeechErrorText("Speech recognition not supported."),
                ttsError')
  /\ phase' = "mounted"
  /\ Did("Mount", 0)
  /\ UNCHANGED <<conversations, currentConversationId, now, isRecording,
                 isProcessing, reqVars, isSpeaking, audioSourceRef, utts, nUtt,
                 replayTimers, hookRecording, recog, nSess, callbacks>>

\* the commit of the load effect's setState, and the save effect after it
Hydrate ==
  /\ phase = "mounted"
  /\ conversations' = pendingLoad[1]
  /\ currentConversationId' = pendingLoad[2]
  /\ storage' = Save(conversations', currentConversationId', storage)
  /\ pendingLoad' = Null
  /\ phase' = "ready"
  /\ Did("Hydrate", 0)
  /\ UNCHANGED <<now, nextId, appVars, reqVars, ttsVars, sttVars>>

\* ------------------------------------------------------- handleSendMessage
\* a handleSendMessage that silences the speaker before it looks at the text
HandleSendMessageCancelsFirst(text) ==
  IF Trim(text) = <<>>
  THEN /\ SetTts(StopIfSpeaking(Tts))
       /\ UNCHANGED <<storeVars, isProcessing, error, reqVars, ttsSupported,
                      replayTimers>>
  ELSE
    /\ nReq < MaxReqs
    /\ SpeakRoom
    /\ \E t \in Clock :
         LET r == nReq + 1
             c == GetCurrentConversation(conversations, currentConversationId,
                                         nextId, t)
             updated == AppendUserMessage(c, text, r, t)
         IN  /\ now' = t
             /\ conversations' = UpsertConversation(conversations, updated)
             /\ currentConversationId' = updated.id
             /\ reqs' = [reqs EXCEPT ![r] = [ReqInit EXCEPT !.st = "inflight",
                                                           !.conv = updated,
                                                           !.convId = updated.id,
                                                           !.cap = isSpeaking,
                                                           !.text = text]]
             /\ nReq' = r
    /\ nextId' = IF Len(conversations) = 0 THEN nextId + 1 ELSE nextId
    /\ storage' = Save(conversations', currentConversationId', storage)
    /\ isProcessing' = TRUE
    /\ SetTts(StopIfSpeaking(Tts))
    /\ error' = ErrorAfterTts(Null, ttsError')
    /\ UNCHANGED <<phase, pendingLoad, ttsSupported, replayTimers>>

\* handleSendMessage(text) up to its await.  It leaves isRecording, the
\* recognizer and `last` to the action that calls it.
HandleSendMessage(text) ==
  IF Trim(text) = <<>>
  THEN UNCHANGED <<storeVars, isProcessing, error, reqVars, ttsVars>>
  ELSE
    /\ nReq < MaxReqs
    /\ SpeakRoom
    /\ \E t \in Clock :
         LET r == nReq + 1
             c == GetCurrentConversation(conversations, currentConversationId,
                                         nextId, t)
             updated == AppendUserMessage(c, text, r, t)
         IN  /\ now' = t
             /\ conversations' = UpsertConversation(conversations, updated)
             /\ currentConversationId' = updated.id
             /\ reqs' = [reqs EXCEPT ![r] = [ReqInit EXCEPT !.st = "inflight",
                                                           !.conv = updated,
                                                           !.convId = updated.id,
                                                           !.cap = isSpeaking,
                                                           !.text = text]]
             /\ nReq' = r
    /\ nextId' = IF Len(conversations) = 0 THEN nextId + 1 ELSE nextId
    /\ storage' = Save(conversations', currentConversationId', storage)
    /\ isProcessing' = TRUE
    /\ SetTts(StopIfSpeaking(Tts))
    /\ error' = ErrorAfterTts(Null, ttsError')
    /\ UNCHANGED <<phase, pendingLoad, ttsSupported, replayTimers>>

\* handleSendMessage called with a text that trims to nothing
SubmitBlank(text) ==
  /\ phase = "ready"
  /\ Trim(text) = <<>>
  /\ HandleSendMessage(text)
  /\ Did("SubmitBlank", nReq)
  /\ UNCHANGED <<isRecording, sttVars>>

\* MessageInput.handleSubmit: the form is inert while isProcessing
SubmitTyped(text) ==
  /\ phase = "ready"
  /\ Trim(text) # <<>>
  /\ ~isProcessing
  /\ HandleSendMessage(Trim(text))
  /\ Did("SubmitTyped", nReq')
  /\ UNCHANGED <<isRecording, sttVars>>

\* the continuation of handleSendMessage after the webhook resolved
WebhookDelivers(r, text, body) ==
  /\ reqs[r].st = "inflight"
  /\ \E t \in Clock :
       LET updated == AppendAgentMessage(reqs[r].conv, text, r, t)
       IN  /\ now' = t
           /\ conversations' = UpsertConversation(conversations, updated)
           /\ currentConversationId' = updated.id
           /\ reqs' = [reqs EXCEPT ![r].st = "done", ![r].conv = Null,
                                   ![r].text = text, ![r].body = body]
  /\ storage' = Save(conversations', currentConversationId', storage)
  /\ isProcessing' = FALSE
  /\ IF ttsSupported
     THEN /\ SetTts(Speak(Tts, text, reqs[r].cap))
          /\ error' = ErrorAfterTts(error, ttsError')
     ELSE /\ error' = <<"Speech synthesis is not supported on this device/browser.">>
          /\ UNCHANGED <<isSpeaking, ttsError, audioSourceRef, ctxState, utts, nUtt>>
  /\ Step("WebhookReply", r, ttsSupported)
  /\ UNCHANGED <<phase, pendingLoad, nextId, nReq, isRecording, ttsSupported,
                 replayTimers, sttVars>>

\* sendMessageToWebhook resolved to text (the response body left aside)
WebhookReply(r, text) == WebhookDelivers(r, text, <<>>)

\* the webhook answered with a body, which sendMessageToWebhook formats
WebhookResponse(r, body) ==
  WebhookDelivers(r, SendMessageToWebhook(body), body)

\* the catch block of handleSendMessage after the webhook rejected
WebhookFail(r, e) ==
  /\ reqs[r].st = "inflight"
  /\ reqs' = [reqs EXCEPT ![r].st = "failed", ![r].conv = Null, ![r].err = e]
  /\ isProcessing' = FALSE
  /\ error' = ErrorMessageFor(e)
  /\ Did("WebhookFail", r)
  /\ UNCHANGED <<storeVars, nReq, isRecording, ttsVars, sttVars>>

\* ------------------------------------------------------ conversation list
\* the ids a caller may pass: those on screen, and one that names nothing
SelectableIds == Ids(conversations) \cup {GhostId}

HandleNewConversation ==
  /\ phase = "ready"
  /\ nextId <= MaxIds
  /\ \E t \in Clock :
       /\ now' = t
       /\ conversations' =
            <<NewConversation(nextId, t)>> \o Filter(conversations, nextId)
  /\ currentConversationId' = nextId
  /\ nextId' = nextId + 1
  /\ storage' = Save(conversations', currentConversationId', storage)
  /\ SetTts(StopIfSpeaking(Tts))
  /\ error' = ErrorAfterTts(Null, ttsError')
  /\ Did("NewConversation", nextId)
  /\ UNCHANGED <<phase, pendingLoad, isRecording, isProcessing, reqVars,
                 ttsSupported, replayTimers, sttVars>>

HandleSelectConversation(id) ==
  /\ phase = "ready"
  /\ currentConversationId' = id
  /\ storage' = Save(conversations, currentConversationId', storage)
  /\ SetTts(StopIfSpeaking(Tts))
  /\ error' = ErrorAfterTts(Null, ttsError')
  /\ Did("SelectConversation", id)
  /\ UNCHANGED <<conversations, phase, pendingLoad, now, nextId, isRecording,
                 isProcessing, reqVars, ttsSupported, replayTimers, sttVars>>

\* a delete that creates the fresh conversation and leaves the selection alone
DeleteConversationKeepsCurrent(convs, cur, id, freshId, t) ==
  LET remaining == Filter(convs, id)
  IN  IF cur = id /\ Len(remaining) = 0
      THEN <<(<<NewConversation(freshId, t)>>), cur>>
      ELSE <<remaining, cur>>

\* a delete that selects the oldest of the conversations that remain
DeleteConversationSelectsOldest(convs, cur, id, freshId, t) ==
  LET remaining == Filter(convs, id)
  IN  IF cur = id
      THEN IF Len(remaining) > 0
           THEN <<SortByUpdatedAtDesc(remaining),
                  SortByUpdatedAtDesc(remaining)[Len(remaining)].id>>
           ELSE <<(<<NewConversation(freshId, t)>>), freshId>>
      ELSE <<remaining, cur>>

\* the setState updater of handleDeleteConversation:
\* <<conversations, currentConversationId>>
DeleteConversation(convs, cur, id, freshId, t) ==
  LET remaining == Filter(convs, id)
  IN  IF cur = id
      THEN IF Len(remaining) > 0
           THEN <<SortByUpdatedAtDesc(remaining), SortByUpdatedAtDesc(remaining)[1].id>>
           ELSE <<(<<NewConversation(freshId, t)>>), freshId>>
      ELSE <<remaining, cur>>

\* a render that leaves an empty list empty
RenderAsCommitted(convs, cur, freshId, t) == <<convs, cur>>

\* The render that follows a state change calls getCurrentConversation(),
\* which fills an empty list with a fresh conversation and selects it before
\* anything is committed: <<conversations, currentConversationId>>.  Only the
\* delete handler can empty the list.
RenderCurrent(convs, cur, freshId, t) ==
  IF cur \notin Ids(convs) /\ Len(convs) = 0
  THEN <<(<<NewConversation(freshId, t)>>), freshId>>
  ELSE <<convs, cur>>

HandleDeleteConversation(id) ==
  /\ phase = "ready"
  /\ LET fresh == Filter(conversations, id) = <<>>
     IN  /\ fresh => nextId <= MaxIds
         /\ nextId' = IF fresh THEN nextId + 1 ELSE nextId
         /\ \E t \in (IF fresh THEN Clock ELSE {now}) :
              LET d == DeleteConversation(conversations, currentConversationId,
                                          id, nextId, t)
                  n == RenderCurrent(d[1], d[2], nextId, t)
              IN  /\ now' = t
                  /\ conversations' = n[1]
                  /\ currentConversationId' = n[2]
  /\ storage' = Save(conversations', currentConversationId', storage)
  /\ SetTts(StopIfSpeaking(Tts))
  /\ error' = ErrorAfterTts(Null, ttsError')
  /\ Did(IF currentConversationId = id THEN "DeleteCurrent"
         ELSE "DeleteConversation", id)
  /\ UNCHANGED <<phase, pendingLoad, isRecording, isProcessing, reqVars,
                 ttsSupported, replayTimers, sttVars>>

\* ------------------------------------------------------------------ replay
\* the agent messages MessageList shows, each with a replay button
ReplayableTexts ==
  LET c == GetCurrentConversation(conversations, currentConversationId, nextId, now)
  IN  {c.messages[i].text : i \in {j \in 1..Len(c.messages) :
                                     ~c.messages[j].isUser /\ c.messages[j].text # <<>>}}

HandleReplayAudio(text) ==
  /\ phase = "ready"
  /\ ttsSupported
  /\ SpeakRoom
  /\ IF isSpeaking
     THEN /\ SetTts(Cancel(Tts, isSpeaking))
          /\ replayTimers' = Append(replayTimers, text)
     ELSE /\ SetTts(Speak(Tts, text, isSpeaking))
          /\ UNCHANGED replayTimers
  /\ error' = ErrorAfterTts(error, ttsError')
  /\ Step("ReplayAudio", nUtt', ~isSpeaking)
  /\ UNCHANGED <<storeVars, isRecording, isProcessing, reqVars, ttsSupported,
                 sttVars>>

\* setTimeout(() => speak(message.text), 100), set while isSpeaking was true
ReplayTimer ==
  /\ replayTimers # <<>>
  /\ SetTts(Speak(Tts, Head(replayTimers), TRUE))
  /\ replayTimers' = Tail(replayTimers)
  /\ error' = ErrorAfterTts(error, ttsError')
  /\ Step("ReplayTimer", nUtt', TRUE)
  /\ UNCHANGED <<storeVars, isRecording, isProcessing, reqVars, ttsSupported,
                 sttVars>>

\* ------------------------------------------------ continuations of speak()
\* after `await audioContextRef.current.resume()`
ResumeDone(k, ok) ==
  /\ utts[k].pc = "resume"
  /\ IF ok
     THEN SetTts(SpeakBody([Tts EXCEPT !.ctx = "running"], k))
     ELSE SetTts([Tts EXCEPT
            !.ttsError = <<"Could not resume AudioContext. User interaction might be required.">>,
            !.utts[k].pc = "done"])
  /\ error' = ErrorAfterTts(error, ttsError')
  /\ Did(IF ok THEN "ResumeDone" ELSE "ResumeFailed", k)
  /\ UNCHANGED <<storeVars, isRecording, isProcessing, reqVars, ttsSupported,
                 replayTimers, sttVars>>

\* after `await fetchGoogleTTSAudio(processedText)`: the buffer is built, the
\* source started and stored in audioSourceRef
FetchDone(k) ==
  /\ utts[k].pc = "fetch"
  /\ SetTts([Tts EXCEPT
       !.utts[k].pc = "done",
       !.utts[k].src = "playing",
       !.utts[k].unstopped = {j \in utts[k].atCall : ~utts[j].stopCalled},
       !.ref = k])
  /\ Did("FetchDone", k)
  /\ UNCHANGED <<storeVars, appVars, reqVars, ttsSupported, replayTimers, sttVars>>

\* what the try block of speak() may throw after the await
SpeakFailures ==
  {"Could not retrieve synthesized speech. Please ensure the backend TTS proxy is running and configured correctly."}

\* the catch block of speak()
FetchFailed(k, m) ==
  /\ utts[k].pc = "fetch"
  /\ SetTts([Tts EXCEPT
       !.ttsError = <<"Speech synthesis failed: ", m>>,
       !.isSpeaking = FALSE,
       !.utts = IF audioSourceRef # 0
                THEN [StopSource(@, audioSourceRef) EXCEPT ![k].pc = "failed"]
                ELSE [@ EXCEPT ![k].pc = "failed"],
       !.ref = 0])
  /\ error' = ErrorAfterTts(error, ttsError')
  /\ Did("FetchFailed", k)
  /\ UNCHANGED <<storeVars, isRecording, isProcessing, reqVars, ttsSupported,
                 replayTimers, sttVars>>

\* an onended that clears the reference whatever it holds
SourceEndedClearsRef(k) ==
  /\ utts[k].src \in {"playing", "stopped"}
  /\ SetTts([Tts EXCEPT
       !.isSpeaking = FALSE,
       !.utts[k].src = "ended",
       !.ref = 0])
  /\ Did("SourceEnded", k)
  /\ UNCHANGED <<storeVars, appVars, reqVars, ttsSupported, replayTimers, sttVars>>

\* source.onended, after the buffer ran out or after stop()
SourceEnded(k) ==
  /\ utts[k].src \in {"playing", "stopped"}
  /\ SetTts([Tts EXCEPT
       !.isSpeaking = FALSE,
       !.utts[k].src = "ended",
       !.ref = IF @ = k THEN 0 ELSE @])
  /\ Did("SourceEnded", k)
  /\ UNCHANGED <<storeVars, appVars, reqVars, ttsSupported, replayTimers, sttVars>>

\* --------------------------------------------------- useSpeechRecognition
\* recog is the platform recognizer: idle, starting (start() accepted, onstart
\* not yet delivered), listening, stopping (stop() accepted), ending (a result
\* or an error was delivered and onend is due).

\* recognitionInstance.onerror: event.error -> the message passed to onError
RecognitionErrors == {"not-allowed", "aborted"}

RecognitionErrorMessage(kind) ==
  IF kind = "no-speech" THEN "No speech was detected. Please try again."
  ELSE IF kind = "audio-capture"
  THEN "Audio capture failed. Please check microphone permissions and settings."
  ELSE IF kind = "not-allowed"
  THEN "Microphone access was denied. Please allow microphone access in your browser settings."
  ELSE IF kind = "network"
  THEN "Network error during speech recognition. Please check your internet connection."
  ELSE kind

\* a handleStartRecording that does not look at isSupported
HandleStartRecordingUnchecked ==
  /\ phase = "ready"
  /\ SetTts(StopIfSpeaking(Tts))
  /\ IF hookRecording
     THEN UNCHANGED <<hookRecording, recog, nSess, callbacks>>
     ELSE IF recog = "idle"
     THEN /\ nSess < MaxSess
          /\ recog' = "starting"
          /\ nSess' = nSess + 1
          /\ callbacks' = 0
          /\ UNCHANGED hookRecording
     ELSE /\ hookRecording' = FALSE
          /\ UNCHANGED <<recog, nSess, callbacks>>
  /\ isRecording' = TRUE
  /\ error' = ErrorAfterTts(Null, ttsError')
  /\ Did("StartRecording", nSess')
  /\ UNCHANGED <<storeVars, isProcessing, reqVars, ttsSupported, replayTimers,
                 sttSupported>>

\* handleStartRecording
HandleStartRecording ==
  /\ phase = "ready"
  /\ IF ~sttSupported
     THEN /\ error' = <<"Speech recognition is not supported on this device/browser.">>
          /\ UNCHANGED <<isRecording, ttsVars, sttVars>>
     ELSE /\ SetTts(StopIfSpeaking(Tts))
          \* startRecording(): start() throws unless the recognizer is idle
          /\ IF hookRecording
             THEN UNCHANGED <<hookRecording, recog, nSess, callbacks>>
             ELSE IF recog = "idle"
             THEN /\ nSess < MaxSess
                  /\ recog' = "starting"
                  /\ nSess' = nSess + 1
                  /\ callbacks' = 0
                  /\ UNCHANGED hookRecording
             ELSE /\ hookRecording' = FALSE
                  /\ UNCHANGED <<recog, nSess, callbacks>>
          /\ isRecording' = TRUE
          /\ error' = ErrorAfterTts(Null, ttsError')
          /\ UNCHANGED <<ttsSupported, replayTimers, sttSupported>>
  /\ Did(IF sttSupported /\ ~hookRecording /\ recog # "idle"
         THEN "StartRecordingThrew" ELSE "StartRecording", nSess')
  /\ UNCHANGED <<storeVars, isProcessing, reqVars>>

\* a stopRecording() that declares the session over as soon as it asks
HandleStopRecordingIdlesAtOnce ==
  /\ phase = "ready"
  /\ recog' = IF hookRecording /\ recog = "listening" THEN "stopping" ELSE recog
  /\ hookRecording' = FALSE
  /\ Did("StopRecording", nSess)
  /\ UNCHANGED <<storeVars, appVars, reqVars, ttsVars, sttSupported,
                 nSess, callbacks>>

\* handleStopRecording -> stopRecording()
HandleStopRecording ==
  /\ phase = "ready"
  /\ recog' = IF hookRecording /\ recog = "listening" THEN "stopping" ELSE recog
  /\ Did("StopRecording", nSess)
  /\ UNCHANGED <<storeVars, appVars, reqVars, ttsVars, sttSupported,
                 hookRecording, nSess, callbacks>>

\* the microphone button of MessageInput: shown when recognition is
\* supported, inert while isProcessing, a stop button while isRecording
MicClick ==
  /\ sttSupported
  /\ ~isProcessing
  /\ IF isRecording THEN HandleStopRecording ELSE HandleStartRecording

\* handleStartRecording reached without the button (recognition unsupported)
StartRecordingUnsupported ==
  /\ ~sttSupported
  /\ HandleStartRecording

\* startRecording() of the hook where initialize() found no recognizer: it
\* initializes again, which reports through onError, and its timer finds no
\* recognizer to start
StartRecordingUninitialized ==
  /\ phase = "ready"
  /\ ~sttSupported
  /\ error' = SpeechErrorText("Speech recognition not supported.")
  /\ isRecording' = FALSE
  /\ Did("StartRecordingUninitialized", nSess)
  /\ UNCHANGED <<storeVars, isProcessing, reqVars, ttsVars, sttVars>>

\* recognitionInstance.onstart
RecogOnStart ==
  /\ recog = "starting"
  /\ recog' = "listening"
  /\ hookRecording' = TRUE
  /\ Did("RecogOnStart", nSess)
  /\ UNCHANGED <<storeVars, appVars, reqVars, ttsVars, sttSupported, nSess,
                 callbacks>>

\* recognitionInstance.onerror -> handleSpeechError
RecogOnError(kind) ==
  /\ recog \in {"starting", "listening", "stopping"}
  /\ recog' = "ending"
  /\ error' = SpeechErrorText(RecognitionErrorMessage(kind))
  /\ isRecording' = FALSE
  /\ hookRecording' = FALSE
  /\ Did("RecogOnError", nSess)
  /\ callbacks' = callbacks + 1
  /\ UNCHANGED <<storeVars, isProcessing, reqVars, ttsVars, sttSupported, nSess>>

\* recognitionInstance.onresult with the final transcript -> handleSpeechResult
RecogOnResult(transcript) ==
  /\ recog \in {"listening", "stopping"}
  /\ recog' = "ending"
  /\ IF transcript # <<>>
     THEN /\ HandleSendMessage(transcript)
          /\ isRecording' = FALSE
          /\ callbacks' = callbacks + 1
     ELSE UNCHANGED <<storeVars, appVars, reqVars, ttsVars, callbacks>>
  /\ Did("RecogOnResult", nSess)
  /\ UNCHANGED <<sttSupported, hookRecording, nSess>>

\* recognitionInstance.onend
RecogOnEnd ==
  /\ recog \in {"listening", "stopping", "ending"}
  /\ recog' = "idle"
  /\ hookRecording' = FALSE
  /\ Did("RecogOnEnd", nSess)
  /\ UNCHANGED <<storeVars, appVars, reqVars, ttsVars, sttSupported, nSess,
                 callbacks>>

\* the close button of ErrorMessage, rendered while state.error is set
DismissError ==
  /\ error # Null
  /\ error' = Null
  /\ Did("DismissError", 0)
  /\ UNCHANGED <<storeVars, isRecording, isProcessing, reqVars, ttsVars, sttVars>>

\* -------------------------------------------------------------------- Next
Next ==
  \/ Mount
  \/ Hydrate
  \/ \E text \in UserTexts : SubmitTyped(text)
  \/ \E r \in 1..MaxReqs, text \in ReplyTexts : WebhookReply(r, text)
  \/ \E r \in 1..MaxReqs, e \in WebhookErrors : WebhookFail(r, e)
  \/ HandleNewConversation
  \/ \E id \in SelectableIds : HandleSelectConversation(id)
  \/ \E id \in SelectableIds : HandleDeleteConversation(id)
  \/ \E text \in ReplayableTexts : HandleReplayAudio(text)
  \/ ReplayTimer
  \/ \E k \in 1..MaxUtter, ok \in BOOLEAN : ResumeDone(k, ok)
  \/ \E k \in 1..MaxUtter : FetchDone(k)
  \/ \E k \in 1..MaxUtter, m \in SpeakFailures : FetchFailed(k, m)
  \/ \E k \in 1..MaxUtter : SourceEnded(k)
  \/ MicClick
  \/ StartRecordingUnsupported
  \/ RecogOnStart
  \/ \E kind \in RecognitionErrors : RecogOnError(kind)
  \/ \E transcript \in UserTexts : RecogOnResult(transcript)
  \/ RecogOnEnd
  \/ DismissError
  \/ \E text \in UserTexts : SubmitBlank(text)
  \/ StartRecordingUninitialized
  \/ \E r \in 1..MaxReqs, body \in PlainBodies : WebhookResponse(r, body)

Spec == Init /\ [][Next]_vars

(***************************************************************************)
(* Spec is the whole client.  The claims are checked on parts of it,       *)
(* each Spec with some of the user's and the environment's moves left out: *)
(* every behaviour of a part is a behaviour of Spec, except that SpecLoad  *)
(* and SpecTitle draw storage and typed texts from larger sets.            *)
(***************************************************************************)

\* The conversation store under the list operations and the message turn from
\* the form, with and without synthesis; synthesis requests stay pending.
NextStore ==
  \/ Mount
  \/ Hydrate
  \/ \E text \in UserTexts : nReq < MaxStoreReqs /\ SubmitTyped(text)
  \/ \E r \in 1..MaxReqs, text \in PlainReplies : WebhookReply(r, text)
  \/ \E r \in 1..MaxReqs : WebhookFail(r, HttpError(503))
  \/ HandleNewConversation
  \/ \E id \in SelectableIds : HandleSelectConversation(id)
  \/ \E id \in SelectableIds : HandleDeleteConversation(id)

InitStore ==
  /\ Init
  /\ platform.recognition
  /\ platform.ctx # "suspended"

SpecStore == InitStore /\ [][NextStore]_vars

\* The message turn on a first visit: both input paths (the form and the
\* recognizer) and the webhook's answers, with and without synthesis.
NextTurn ==
  \/ Mount
  \/ Hydrate
  \/ \E text \in UserTexts : SubmitTyped(text)
  \/ \E r \in 1..MaxReqs, text \in TurnReplies : WebhookReply(r, text)
  \/ \E r \in 1..MaxReqs, e \in WebhookErrors : WebhookFail(r, e)
  \/ MicClick
  \/ RecogOnStart
  \/ \E transcript \in UserTexts : RecogOnResult(transcript)
  \/ RecogOnEnd

InitTurn ==
  /\ Init
  /\ platform.recognition
  /\ platform.ctx # "suspended"
  /\ storage.kind = "absent"

SpecTurn == InitTurn /\ [][NextTurn]_vars

\* Speech in and out: replay, the message turn through the recognizer, the
\* synthesis pipeline and the recognizer's callbacks; the conversation list is
\* left alone.
NextVoice ==
  \/ Mount
  \/ Hydrate
  \/ \E r \in 1..MaxReqs, text \in ReplyTexts : WebhookReply(r, text)
  \/ \E r \in 1..MaxReqs : WebhookFail(r, HttpError(503))
  \/ \E text \in ReplayableTexts : HandleReplayAudio(text)
  \/ ReplayTimer
  \/ \E k \in 1..MaxUtter, ok \in BOOLEAN : ResumeDone(k, ok)
  \/ \E k \in 1..MaxUtter : FetchDone(k)
  \/ \E k \in 1..MaxUtter, m \in SpeakFailures : FetchFailed(k, m)
  \/ \E k \in 1..MaxUtter : SourceEnded(k)
  \/ MicClick
  \/ StartRecordingUnsupported
  \/ RecogOnStart
  \/ \E kind \in RecognitionErrors : RecogOnError(kind)
  \/ \E transcript \in UserTexts : RecogOnResult(transcript)
  \/ RecogOnEnd

InitVoice ==
  /\ Init
  /\ storage \in {s \in InitialStorages : s.kind = "json" /\ Len(s.conversations) = 1}

SpecVoice == InitVoice /\ [][NextVoice]_vars

\* Speech out alone: replay of a stored answer and the synthesis pipeline.
NextSpeech ==
  \/ Mount
  \/ Hydrate
  \/ \E text \in ReplayableTexts : HandleReplayAudio(text)
  \/ ReplayTimer
  \/ \E k \in 1..MaxUtter, ok \in BOOLEAN : ResumeDone(k, ok)
  \/ \E k \in 1..MaxUtter : FetchDone(k)
  \/ \E k \in 1..MaxUtter, m \in SpeakFailures : FetchFailed(k, m)
  \/ \E k \in 1..MaxUtter : SourceEnded(k)

InitSpeech ==
  /\ InitVoice
  /\ platform.audio
  /\ platform.recognition

SpecSpeech == InitSpeech /\ [][NextSpeech]_vars

\* A stored array that parses and maps without throwing although its entry is
\* no Conversation: [{"messages": []}] has no id (0), no title and no dates.
MalformedStorage ==
  Snapshot(<<[id |-> 0, title |-> <<>>, messages |-> <<>>, updatedAt |-> -1]>>, 0)

\* whether a stored value is a non-empty array of conversations
WellFormedSnapshot(st) ==
  /\ st.kind = "json"
  /\ Len(st.conversations) > 0
  /\ \A i \in 1..Len(st.conversations) : st.conversations[i].id # 0

\* The store as SpecStore has it, started on whatever localStorage may hold,
\* a value the client never wrote included.
InitLoad ==
  /\ InitOn(InitialStorages \cup {MalformedStorage})
  /\ platform.recognition
  /\ platform.ctx # "suspended"

SpecLoad == InitLoad /\ [][NextStore]_vars

\* Blank input while an answer is replayed: handleSendMessage called with a
\* blank text, and the recognizer delivering a blank transcript or none.
BlankTexts == {t \in UserTexts : Trim(t) = <<>>}

NextBlank ==
  \/ NextSpeech
  \/ \E text \in BlankTexts : SubmitBlank(text)
  \/ MicClick
  \/ RecogOnStart
  \/ \E transcript \in BlankTexts : RecogOnResult(transcript)
  \/ RecogOnEnd

SpecBlank == InitSpeech /\ [][NextBlank]_vars

\* The error banner: what raises an error (a failed request, a recognition
\* error, an unsupported platform) and every move of the user that follows.
NextError ==
  \/ Mount
  \/ Hydrate
  \/ \E text \in UserTexts : nReq < MaxStoreReqs /\ SubmitTyped(text)
  \/ \E r \in 1..MaxReqs : WebhookFail(r, HttpError(503))
  \/ HandleNewConversation
  \/ \E id \in SelectableIds : HandleSelectConversation(id)
  \/ \E id \in SelectableIds : HandleDeleteConversation(id)
  \/ MicClick
  \/ RecogOnStart
  \/ \E kind \in RecognitionErrors : RecogOnError(kind)
  \/ \E transcript \in UserTexts :
       nReq < MaxStoreReqs /\ RecogOnResult(transcript)
  \/ RecogOnEnd
  \/ DismissError

InitError ==
  /\ Init
  /\ platform.recognition
  /\ platform.ctx # "suspended"
  /\ platform.audio
  /\ storage.kind = "absent"

SpecError == InitError /\ [][NextError]_vars

\* A browser without speech recognition: the store and the typed turn as in
\* SpecStore, and every way to ask for a recording.
NextUnsupported ==
  \/ NextStore
  \/ StartRecordingUnsupported
  \/ StartRecordingUninitialized
  \/ DismissError

InitUnsupported ==
  /\ Init
  /\ ~platform.recognition
  /\ platform.ctx # "suspended"
  /\ storage.kind = "absent"

SpecUnsupported == InitUnsupported /\ [][NextUnsupported]_vars

\* The title rule: messages whose lengths lie on both sides of the limit,
\* typed into new and into loaded conversations, and the answers to them.
TitleLens == {1, 29, 30, 31, 33}

\* the text "aa...a" of n letters, and the text "New Conversation" itself
TitleTexts ==
  {[i \in 1..n |-> 97] : n \in TitleLens} \cup {NewConversationTitle}

NextTitle ==
  \/ Mount
  \/ Hydrate
  \/ \E text \in TitleTexts : SubmitTyped(text)
  \/ \E r \in 1..MaxReqs, text \in PlainReplies : WebhookReply(r, text)
  \/ HandleNewConversation

InitTitle ==
  /\ Init
  /\ platform.recognition
  /\ ~platform.audio
  /\ storage \in {st \in InitialStorages : st.kind = "absent" \/
                     (st.kind = "json" /\ Len(st.conversations) = 1)}

SpecTitle == InitTitle /\ [][NextTitle]_vars

\* What is sent to the synthesis service: one typed message, the webhook's
\* answer to it with each text of SpeechTexts, and the synthesis pipeline.
NextSay ==
  \/ Mount
  \/ Hydrate
  \/ \E text \in UserTexts : nReq < MaxStoreReqs /\ SubmitTyped(text)
  \/ \E r \in 1..MaxReqs, text \in SpeechTexts : WebhookReply(r, text)
  \/ \E k \in 1..MaxUtter, ok \in BOOLEAN : ResumeDone(k, ok)
  \/ \E k \in 1..MaxUtter : FetchDone(k)
  \/ \E k \in 1..MaxUtter, m \in SpeakFailures : FetchFailed(k, m)
  \/ \E k \in 1..MaxUtter : SourceEnded(k)

SpecSay == InitSpeech /\ [][NextSay]_vars

\* The normalizer on the way it is used: one typed message, and the webhook's
\* answer to it with each body of PlainBodies and of OutputBodies.
NextNormalize ==
  \/ Mount
  \/ Hydrate
  \/ \E text \in UserTexts : nReq < MaxStoreReqs /\ SubmitTyped(text)
  \/ \E r \in 1..MaxReqs, body \in PlainBodies : WebhookResponse(r, body)
  \/ \E r \in 1..MaxReqs, body \in OutputBodies : WebhookResponse(r, body)

InitNormalize ==
  /\ Init
  /\ platform.recognition
  /\ ~platform.audio
  /\ storage.kind = "absent"

SpecNormalize == InitNormalize /\ [][NextNormalize]_vars

(***************************************************************************)
(* The properties.                                                         *)
(***************************************************************************)
IsPrefix(s, t) == Len(s) <= Len(t) /\ SubSeq(t, 1, Len(s)) = s

\* C1: at most one audio source has been started and has neither been
\* stopped nor ended, whatever the interleaving of speak() calls, fetch
\* completions, cancel() calls and onended callbacks.
AtMostOnePlaying == Cardinality(Playing(utts)) <= 1

\* C2: every source that was playing when speak() was called has received
\* stop() by the time the source of that speak() is started.
StopBeforeStart == \A k \in DOMAIN utts : utts[k].unstopped = {}

\* C3: the recognizer is never listening while an audio source is playing.
ListeningExcludesPlaying == ~(recog = "listening" /\ Playing(utts) # {})

\* C4: a conversation present in two successive states keeps its messages as
\* a prefix of the later ones, and its updatedAt does not decrease.
MessagesAppendOnly ==
  [][\A i \in 1..Len(conversations), j \in 1..Len(conversations') :
       conversations[i].id = conversations'[j].id =>
         /\ IsPrefix(conversations[i].messages, conversations'[j].messages)
         /\ conversations[i].updatedAt <= conversations'[j].updatedAt]_vars

\* C5: once the stored state is loaded, currentConversationId is the id of a
\* conversation in the list.
CurrentConversationExists ==
  phase = "ready" => currentConversationId \in Ids(conversations)

\* C6: once the stored state is loaded, the list of conversations is never
\* empty, under new, select, delete, typed messages and webhook answers.
ConversationsNonEmpty == phase = "ready" => Len(conversations) > 0

\* C6, the case: the only conversation was deleted while another id was
\* selected, and a fresh one replaced it
DeletedLastConversation ==
  /\ last.op = "DeleteConversation"
  /\ storage.currentId = conversations[1].id
  /\ Len(conversations) = 1
  /\ conversations[1].id = nextId - 1
  /\ conversations[1].id # last.id
  /\ conversations[1].messages = <<>>
  /\ currentConversationId = conversations[1].id

\* C7: at most one webhook request is in flight, whether the messages come
\* from the form or from the recognizer.
AtMostOneInflight == Cardinality(Inflight) <= 1

\* C8: after the webhook call failed, isProcessing is false and error is a
\* message, and it is not the message of a failure of another class (4xx, 5xx,
\* network).
WebhookFailureReported ==
  last.op = "WebhookFail" =>
    LET e == reqs[last.id].err
    IN  /\ reqs[last.id].st = "failed"
        /\ ~isProcessing
        /\ error # Null
        /\ \A f \in WebhookErrors :
             (f.type # e.type \/ LeadingDigit(f.status) # LeadingDigit(e.status))
               => error # ErrorMessageFor(f)

\* C8, the case: a 503 was answered and the server-side message is shown
Failed503 ==
  /\ last.op = "WebhookFail"
  /\ reqs[last.id].err = HttpError(503)
  /\ error = <<"Server error (server-side): The server is currently unavailable. Please try again later.">>
  /\ ~isProcessing

\* C9: when a message is submitted its conversation ends with the user
\* message while the request is in flight; when the webhook answers, that same
\* conversation ends with the user message and then the one agent message
\* carrying the answer, no other conversation holds it, isProcessing is false,
\* and speak() was called with the answer exactly if synthesis is supported.
TurnCompletes ==
  /\ last.op = "SubmitTyped" =>
       LET r == last.id
       IN  /\ reqs[r].st = "inflight"
           /\ reqs[r].convId \in Ids(conversations)
           /\ LET m == Find(conversations, reqs[r].convId).messages
              IN  /\ m # <<>>
                  /\ m[Len(m)] = [text |-> reqs[r].text, isUser |-> TRUE, req |-> r]
  /\ last.op = "WebhookReply" =>
       LET r == last.id
       IN  /\ reqs[r].st = "done"
           /\ reqs[r].convId \in Ids(conversations)
           /\ LET m == Find(conversations, reqs[r].convId).messages
              IN  /\ Len(m) >= 2
                  /\ m[Len(m)] = [text |-> reqs[r].text, isUser |-> FALSE, req |-> r]
                  /\ m[Len(m) - 1].isUser
                  /\ m[Len(m) - 1].req = r
                  /\ Cardinality({i \in 1..Len(m) : ~m[i].isUser /\ m[i].req = r}) = 1
           /\ \A i \in 1..Len(conversations) :
                conversations[i].id # reqs[r].convId =>
                  \A j \in 1..Len(conversations[i].messages) :
                    conversations[i].messages[j].req # r
           /\ ~isProcessing
           /\ last.spoke <=> ttsSupported
           /\ (ttsSupported /\ Trim(reqs[r].text) # <<>>) =>
                /\ nUtt > 0
                /\ utts[nUtt].text = reqs[r].text

\* C9, the case: the answer arrived after its conversation had been deleted
\* and another one selected, and it was spoken
AnsweredAndSpoken ==
  /\ last.op = "WebhookReply"
  /\ last.spoke
  /\ nUtt = 1
  /\ Len(conversations) > 1
  /\ conversations[1].id = reqs[last.id].convId

\* C10: when the recognizer's end signal has been handled, the hook's
\* isRecording and the App's isRecording are both false.
IdleAfterEnd ==
  (last.op = "RecogOnEnd" /\ recog = "idle") => ~hookRecording /\ ~isRecording

\* C11: once the handler of a recognition error has finished (onerror with any
\* subkind, or a start() that threw in handleStartRecording), the App's
\* isRecording is false and error is a message; for not-allowed it is the
\* microphone-permission message.
RecognitionErrorSurfaced ==
  /\ last.op = "RecogOnError" =>
       /\ ~isRecording
       /\ error \in {SpeechErrorText(RecognitionErrorMessage(k)) : k \in RecognitionErrors}
  /\ last.op = "StartRecordingThrew" =>
       /\ ~isRecording
       /\ error # Null

\* C12: a recording session that has ended made exactly one call to the
\* result callback or the error callback.
OneCallbackPerSession == last.op = "RecogOnEnd" => callbacks = 1

\* C13: neither the hook's isRecording nor the App's isRecording is true while
\* a start has been requested and onstart has not been delivered, or while no
\* start was ever accepted.
RecordingOnlyAfterOnStart ==
  (recog = "starting" \/ nSess = 0) => ~hookRecording /\ ~isRecording

\* C14: an utterance that was under way when cancel() was called with
\* isSpeaking true (its fetch pending, or its source playing) is not playing
\* afterwards and never starts playing.
CancelSilences ==
  \A k \in DOMAIN utts : utts[k].cancelled => utts[k].src # "playing"

\* C15: the onended of a source that audioSourceRef no longer holds leaves the
\* reference and every other utterance as they are; the onended of the source
\* it holds clears it.
StaleCompletionKeepsRef ==
  [][last'.op = "SourceEnded" =>
       /\ audioSourceRef' = (IF audioSourceRef = last'.id THEN 0 ELSE audioSourceRef)
       /\ \A j \in DOMAIN utts : j # last'.id => utts'[j] = utts[j]]_vars

\* C15, the case: a superseded source ended while a newer one is referenced
\* and playing
SupersededSourceEnded ==
  /\ last.op = "SourceEnded"
  /\ audioSourceRef # 0
  /\ audioSourceRef # last.id
  /\ utts[audioSourceRef].src = "playing"

\* C16: when the synthesis fetch, or building or starting the source, has
\* failed in speak(), isSpeaking is false, the error message is set and shown,
\* and no audio source is referenced or playing.
SpeakFailureReleases ==
  last.op = "FetchFailed" =>
    /\ ~isSpeaking
    /\ ttsError # Null
    /\ error # Null
    /\ audioSourceRef = 0
    /\ Playing(utts) = {}

\* C17: deleting the current conversation when it is the only one leaves
\* exactly one conversation: a new one with an id not seen before, no messages
\* and the title "New Conversation", and it is the current one.
DeleteLastCreatesFresh ==
  [][(last'.op = "DeleteCurrent" /\ Ids(conversations) = {last'.id}) =>
       /\ Len(conversations') = 1
       /\ conversations'[1].id = nextId
       /\ conversations'[1].id # last'.id
       /\ conversations'[1].messages = <<>>
       /\ conversations'[1].title = NewConversationTitle
       /\ currentConversationId' = conversations'[1].id]_vars

\* C17, the case: the current conversation was deleted, none remained, and
\* the new one is persisted as the current one
DeletedCurrentOnly ==
  /\ last.op = "DeleteCurrent"
  /\ Len(conversations) = 1
  /\ conversations[1].id = nextId - 1
  /\ conversations[1].messages = <<>>
  /\ storage = Snapshot(conversations, nextId - 1)

\* C18: a delete keeps every conversation with another id as it is and leaves
\* none with the deleted id; when the deleted one was current and others
\* remain, nothing is added and the current id becomes that of a remaining
\* conversation with the greatest updatedAt.
DeleteRemovesExactly ==
  [][last'.op \in {"DeleteCurrent", "DeleteConversation"} =>
       LET old  == {conversations[i] : i \in 1..Len(conversations)}
           new  == {conversations'[i] : i \in 1..Len(conversations')}
           rest == {c \in old : c.id # last'.id}
       IN  /\ rest \subseteq new
           /\ last'.id \notin Ids(conversations')
           /\ rest # {} =>
                /\ new = rest
                /\ Len(conversations') = Cardinality(rest)
           /\ (last'.op = "DeleteCurrent" /\ rest # {}) =>
                /\ currentConversationId' \in {c.id : c \in rest}
                /\ \A c \in rest :
                     c.updatedAt <= Find(conversations', currentConversationId').updatedAt]_vars

\* C18, the case: the current conversation was deleted and, of the two that
\* remain, the more recently updated one is now current
DeletedCurrentOfThree ==
  /\ last.op = "DeleteCurrent"
  /\ Len(conversations) = 2
  /\ conversations[1].updatedAt > conversations[2].updatedAt
  /\ currentConversationId = conversations[1].id
  /\ last.id \notin Ids(conversations)

\* C19: no two conversations of the list share an id; after an upsert (a
\* message submitted, a webhook answer) the one entry with the upserted id
\* holds the latest content.
UniqueConversationIds ==
  /\ Cardinality(Ids(conversations)) = Len(conversations)
  /\ last.op \in {"SubmitTyped", "WebhookReply"} =>
       LET id == reqs[last.id].convId
           entries == {i \in 1..Len(conversations) : conversations[i].id = id}
       IN  /\ Cardinality(entries) = 1
           /\ \A i \in entries :
                LET m == conversations[i].messages
                IN  /\ m # <<>>
                    /\ m[Len(m)].req = last.id
                    /\ m[Len(m)].text = reqs[last.id].text
                    /\ m[Len(m)].isUser = (last.op = "SubmitTyped")

\* C19, the case: the answer was upserted over the entry that the user
\* message had put in a list of several conversations
UpsertReplacedEntry ==
  /\ last.op = "WebhookReply"
  /\ Len(conversations) >= 2
  /\ Len(Find(conversations, reqs[last.id].convId).messages) = 2
  /\ Cardinality(Ids(conversations)) = Len(conversations)

SelectOnlyExisting ==
  [][last'.op = "SelectConversation" =>
       /\ currentConversationId' =
            (IF last'.id \in Ids(conversations) THEN last'.id
             ELSE currentConversationId)
       /\ conversations' = conversations]_vars

\* C22: once the first commit's effects have run, and after every change of
\* conversations or currentConversationId, localStorage holds exactly the
\* conversations and the current id of the state.
PersistedMatchesMemory ==
  phase # "constructed" => storage = Snapshot(conversations, currentConversationId)

\* C22, the case: a conversation was created next to two others and the
\* three are stored with the new one as current
StoredAfterNewConversation ==
  /\ last.op = "NewConversation"
  /\ storage.kind = "json"
  /\ Len(storage.conversations) = 3
  /\ storage.conversations[1].id = last.id
  /\ storage.currentId = last.id

\* C23: when localStorage holds no snapshot, or one that does not parse, or one
\* that is not a non-empty array of well-formed conversations, the load effect
\* queues exactly one conversation, empty, titled "New Conversation" and
\* selected, its commit installs exactly that, and neither step reports the
\* failure in the error field.
LoadFallsBackToSeed ==
  [][/\ ((last'.op = "Mount" /\ ~WellFormedSnapshot(storage)) =>
            (/\ Len(pendingLoad'[1]) = 1
             /\ pendingLoad'[1][1].messages = <<>>
             /\ pendingLoad'[1][1].title = NewConversationTitle
             /\ pendingLoad'[1][1].id # 0
             /\ pendingLoad'[2] = pendingLoad'[1][1].id
             /\ (platform.audio => error' = Null)))
     /\ (last'.op = "Hydrate" =>
            (/\ conversations' = pendingLoad[1]
             /\ currentConversationId' = pendingLoad[2]
             /\ error' = error))]_vars

\* C24: when localStorage holds a parseable snapshot, the load effect selects
\* the persisted current id if one of the loaded conversations has it, and
\* otherwise a loaded conversation whose updatedAt is the greatest; its commit
\* makes that id current.
LoadSelectsPersistedOrLatest ==
  [][/\ ((last'.op = "Mount" /\ WellFormedSnapshot(storage)) =>
            (/\ Ids(pendingLoad'[1]) = Ids(storage.conversations)
             /\ pendingLoad'[2] \in Ids(storage.conversations)
             /\ IF storage.currentId \in Ids(storage.conversations)
                THEN pendingLoad'[2] = storage.currentId
                ELSE \A i \in 1..Len(storage.conversations) :
                       Find(storage.conversations, pendingLoad'[2]).updatedAt
                         >= storage.conversations[i].updatedAt))
     /\ (last'.op = "Hydrate" => currentConversationId' = pendingLoad[2])]_vars

\* the snapshot whose current id (13) names neither stored conversation has
\* been loaded, and the later of the two, stored second, is selected
LoadedStaleCurrentId ==
  /\ last.op = "Hydrate"
  /\ Len(conversations) = 2
  /\ currentConversationId = 12
  /\ conversations[1].id = 12

BlankTextIgnored ==
  [][(\/ last'.op = "SubmitBlank"
      \/ last'.op = "RecogOnResult" /\ nReq' = nReq)
     => UNCHANGED <<conversations, currentConversationId, isProcessing, error,
                    reqVars, ttsVars>>]_vars

\* a blank text was submitted while an answer was being spoken
BlankWhileSpeaking ==
  /\ last.op = "SubmitBlank"
  /\ isSpeaking
  /\ audioSourceRef # 0
  /\ utts[audioSourceRef].src = "playing"

\* what startRecording() and stopRecording() do to the recognizer and to the
\* hook's isRecording, by the state they are called in
StartStopGuards ==
  /\ (last'.op \in {"StartRecording", "StartRecordingThrew"} /\ hookRecording)
       => UNCHANGED <<hookRecording, recog, nSess, callbacks>>
  /\ (last'.op = "StopRecording" /\ ~hookRecording)
       => UNCHANGED <<hookRecording, recog, nSess, callbacks>>
  /\ (last'.op = "StopRecording" /\ hookRecording)
       => /\ hookRecording'
          /\ recog = "listening" => recog' = "stopping"
          /\ UNCHANGED <<nSess, callbacks>>

\* C27 as stated: startRecording() while the hook is recording and
\* stopRecording() while it is not change nothing; stopRecording() while it is
\* recording requests the stop, and from then on the hook's isRecording turns
\* false only when onend arrives.
IdleOnlyOnEnd ==
  [][/\ StartStopGuards
     /\ (recog = "stopping" /\ hookRecording /\ ~hookRecording')
          => last'.op = "RecogOnEnd"]_vars

\* C27, amended: the same, except that after the stop request the hook's
\* isRecording turns false when onend arrives or, before it, when the
\* recognizer reports an error; never by the stop request itself.
IdleOnlyOnEndOrError ==
  [][/\ StartStopGuards
     /\ (recog = "stopping" /\ hookRecording /\ ~hookRecording')
          => last'.op \in {"RecogOnEnd", "RecogOnError"}]_vars

\* the stop was requested while the hook was recording, and it still is
StopRequestedStillRecording ==
  /\ last.op = "StopRecording"
  /\ recog = "stopping"
  /\ hookRecording

\* C28: on a platform without speech recognition the hook never asks the
\* recognizer to start and is never recording; every startRecording() reports
\* "not supported" through the error callback, and handleStartRecording shows
\* an error and leaves ConversationState.isRecording false.
UnsupportedFailsFast ==
  [][~platform.recognition =>
       /\ recog' = "idle" /\ ~hookRecording' /\ nSess' = 0 /\ ~isRecording'
       /\ last'.op = "StartRecordingUninitialized" =>
            error' = SpeechErrorText("Speech recognition not supported.")
       /\ last'.op = "StartRecording" =>
            error' = <<"Speech recognition is not supported on this device/browser.">>]_vars

\* without speech recognition, a recording was asked for after the error of
\* the mount had been closed, and an error is showing again
UnsupportedStartRefused ==
  /\ ~platform.recognition
  /\ last.op = "StartRecording"
  /\ error = <<"Speech recognition is not supported on this device/browser.">>
  /\ ~isRecording

\* C29: the first message appended to a conversation that has no messages and
\* whose title is empty or "New Conversation" sets the title to the text if
\* the text has at most 30 characters, and otherwise to its first 27
\* characters followed by "..."; the title is never longer than 30.  No step
\* changes the title of a conversation that already has messages.
AutoTitleRule ==
  [][\A i \in 1..Len(conversations') :
       conversations'[i].id \in Ids(conversations) =>
         LET new == conversations'[i]
             old == Find(conversations, new.id)
         IN  /\ Len(old.messages) > 0 => new.title = old.title
             /\ ( /\ Len(old.messages) = 0
                  /\ Len(new.messages) > 0
                  /\ old.title \in {<<>>, NewConversationTitle} ) =>
                   LET text == new.messages[1].text
                   IN  /\ Len(text) <= 30 => new.title = text
                       /\ Len(text) > 30 =>
                            new.title = SubSeq(text, 1, 27) \o <<46, 46, 46>>
                       /\ Len(new.title) <= 30]_vars

\* a first message of 31 letters gave its conversation a title of 30
TitleTruncated ==
  /\ last.op = "SubmitTyped"
  /\ currentConversationId \in Ids(conversations)
  /\ LET c == Find(conversations, currentConversationId)
     IN  /\ Len(c.messages) = 1
         /\ Len(c.messages[1].text) = 31
         /\ Len(c.title) = 30
         /\ SubSeq(c.title, 28, 30) = Ellipsis

\* C30: formatResponseText is idempotent on plain text: whenever the webhook
\* answered with a body that is not JSON-shaped, formatting the text that the
\* request resolved to gives that text again.
FormatIdempotent ==
  \A r \in 1..MaxReqs :
    (reqs[r].st = "done" /\ Trim(reqs[r].body) # <<>>
       /\ ~JsonShaped(reqs[r].body)) =>
      /\ reqs[r].text = FormatResponseText(reqs[r].body)
      /\ FormatResponseText(reqs[r].text) = reqs[r].text

\* C31: when the webhook answers with the JSON text {"output":"Hello\nWorld"}
\* (the newline escaped), the request resolves to "Hello", a newline, "World":
\* the newline of the output field is kept.
OutputNewlineKept ==
  \A r \in 1..MaxReqs :
    (reqs[r].st = "done"
     /\ reqs[r].body = OutputOpen \o JsonStringBody(HelloWorld) \o OutputClose)
      => reqs[r].text = HelloWorld

\* the allow-list as written out: letters, extended Latin, digits, whitespace
\* and . , ! ? ' " ( ) - euro $ pound %
InAllowList(c) ==
  \/ c \in 97..122 \/ c \in 65..90 \/ c \in 192..255 \/ c \in 48..57
  \/ IsWhitespace(c)
  \/ c \in {46, 44, 33, 63, 39, 34, 40, 41, 45, 8364, 36, 163, 37}

\* C32: the text that speak() sends to the synthesis service holds only
\* characters of the allow-list; every other character (":", "+", "_", ...)
\* has been replaced by a space.
SpokenOnlyAllowListed ==
  \A k \in 1..MaxUtter :
    \A i \in 1..Len(utts[k].spoken) : InAllowList(utts[k].spoken[i])

\* C33: deleting a conversation that is not the current one leaves
\* currentConversationId as it was and leaves every other conversation, and
\* their order, as they were.
DeleteOtherKeepsRest ==
  [][last'.op = "DeleteConversation" =>
       /\ currentConversationId' = currentConversationId
       /\ conversations' = Filter(conversations, last'.id)]_vars

\* C34: a deleted conversation never reappears: once the stored state is
\* loaded, an id that enters the list is the one minted by that step, never
\* an id handed out earlier, also when the step is the arrival of a webhook
\* reply to a message sent from a conversation deleted since.
DeletedStaysDeleted ==
  [][phase = "ready" =>
       \A id \in Ids(conversations') \ Ids(conversations) : id = nextId]_vars

\* C35: the arrival of a webhook reply never changes which conversation is
\* selected: currentConversationId is the same before and after it.
ReplyKeepsSelection ==
  [][last'.op = "WebhookReply" =>
       currentConversationId' = currentConversationId]_vars

\* C36: isProcessing is true whenever a request to the webhook is pending
\* and false when none is; in particular the completion of one request
\* leaves it true while another request is still pending.
ProcessingWhilePending ==
  isProcessing <=> (\E r \in 1..MaxReqs : reqs[r].st = "inflight")

\* C37: isSpeaking is true in every state in which an audio source is
\* playing; the onended of a stopped, superseded source does not leave it
\* false while a newer source plays.
SpeakingWhilePlaying ==
  Playing(utts) # {} => isSpeaking

\* C38: when localStorage holds a parseable snapshot at start, the effects of
\* the first commit leave the stored conversations as they were, and the
\* commit of the load effect makes the conversations in memory equal to the
\* stored ones.
StartupKeepsSnapshot ==
  [][/\ (phase = "constructed" /\ WellFormedSnapshot(storage))
          => (storage'.kind = "json"
              /\ storage'.conversations = storage.conversations)
     /\ \A st \in InitialStorages :
          (phase = "mounted" /\ WellFormedSnapshot(st)
           /\ pendingLoad = Load(st, 0, 0))
            => conversations' = st.conversations]_vars

====
